---------------------------- MODULE Spec2Model ----------------------------
(***************************************************************************)
(* egawari: the interactive configuration editor (src/src/config.rs).      *)
(*                                                                         *)
(* The model follows config_interactive(): the configuration document is   *)
(* loaded by get_config(), the field model (key_sections) is built from    *)
(* it, and the editor loop reads one key per iteration until Enter is      *)
(* pressed outside of edit mode, after which save_config() is called.      *)
(*                                                                         *)
(* Strings are sequences of one-character strings.  Option<T> is a         *)
(* sequence of length at most one: None is << >>, Some(x) is <<x>>.        *)
(* Vec indices (cur.section, cur.key) are 0-based as in the source; the    *)
(* TLA+ sequences holding the vectors are 1-based, hence the "+ 1".        *)
(***************************************************************************)
EXTENDS Integers, Sequences, FiniteSets, TLC

\* Upper bound on the number of keys read by getch() in one session.
MaxKeys == 6

\* u8::MAX, the largest value of Display.screen (src/src/config.rs:75).
U8Max == 255

VARIABLES
    os,             \* env::consts::OS
    file,           \* $CONFIG_DIR/egawari/egawari.toml
    conf,           \* the Config owned by config_interactive
    key_sections,   \* Vec<ConfigKeySection>, with ypos assigned
    cur,            \* ConfigKeyLocation
    edit,           \* bool: FALSE = Navigate, TRUE = Edit
    buf,            \* the edit buffer (String)
    pc,             \* "loop" | "done" | "error" | "panicked" | "reloaded" | "idle"
    key,            \* the key last returned by window.getch()
    prev_edit,      \* history: the value of edit when that key was read
    nkeys,          \* number of keys read so far
    saveCalls,      \* the arguments save_config was called with, in order
    saveResult,     \* "none" | "Ok" | "Err": what save_config returned
    reloaded,       \* result of the get_config() following the session
    loaded,         \* history: the document get_config() returned
    editEntryConf,  \* history: the document when Edit was last entered
    confirmed,      \* history: the commits (Enter in Edit) made so far
    run,            \* history: the current run of equal arrow keys
    window,         \* the field rows of the curses window
    editEntryCur,   \* history: the cursor when Edit was last entered
    editEntryStale, \* history: Edit was entered on a buffer that was not the field's value
    replay,         \* history: the field's value at Edit entry, with the keys since
    arrowInEdit,    \* history: an arrow key was pressed during this edit
    mpc,            \* position in the colour pipeline of src/src/stdout.rs
    string,         \* the argument of color_str_escape
    lookahead_atomic, \* whether the regex engine backtracks into (?=...)
    result,         \* Option: what color_str_escape returned
    escaped,        \* the argument of escaped_to_printw
    frags,          \* the fragments of escaped.split("\x1b") still to do
    surface,        \* the window's bold flag, colour pair and written text
    last            \* history: the fragment last done and what it did

vars == <<os, file, conf, key_sections, cur, edit, buf, pc, key, prev_edit, nkeys,
          saveCalls, saveResult, reloaded, loaded, editEntryConf, confirmed, run, window,
          editEntryCur, editEntryStale, replay, arrowInEdit,
          mpc, string, lookahead_atomic, result, escaped, frags, surface, last>>

\* The variables of the editor session and those of the colour pipeline.
editor_vars == <<os, file, conf, key_sections, cur, edit, buf, pc, key, prev_edit,
                 nkeys, saveCalls, saveResult, reloaded, loaded, editEntryConf,
                 confirmed, run, window,
                 editEntryCur, editEntryStale, replay, arrowInEdit>>
markup_vars == <<mpc, string, lookahead_atomic, result, escaped, frags, surface, last>>

-----------------------------------------------------------------------------
(* Characters and keys                                                     *)

Digits == <<"0", "1", "2", "3", "4", "5", "6", "7", "8", "9">>

\* char::is_digit(10)
IsDigit(c) == \E i \in 1..10 : Digits[i] = c

\* char::to_digit(10) for a digit character
DigitVal(c) == (CHOOSE i \in 1..10 : Digits[i] = c) - 1

\* The printable characters typed in the model (Input::Character(c) other
\* than ' ', '\n', ESC and DEL, which have arms of their own).
CharKeys == {"1", "3", "'", "\\"}


Keys == {"Esc", "Enter", "Space", "Up", "Down", "Backspace", "Other"} \cup CharKeys

-----------------------------------------------------------------------------
(* Option<T>                                                               *)

None == << >>
Some(x) == <<x>>

-----------------------------------------------------------------------------
(* Number <-> String conversions                                           *)

\* format!("{}", n) for n: u8
RECURSIVE U8ToString(_)
U8ToString(n) ==
    IF n < 10 THEN <<Digits[n + 1]>>
    ELSE U8ToString(n \div 10) \o <<Digits[(n % 10) + 1]>>

\* buf.chars().filter(|c| c.is_digit(10)).collect()
FilterDigits(s) == SelectSeq(s, IsDigit)

\* str::parse::<u8>() on a string of digits: checked multiply-and-add,
\* Err on the empty string and on overflow.
RECURSIVE ParseU8Acc(_, _)
ParseU8Acc(s, acc) ==
    IF s = << >> THEN [ok |-> TRUE, val |-> acc]
    ELSE IF acc * 10 > U8Max THEN [ok |-> FALSE, val |-> 0]
    ELSE IF acc * 10 + DigitVal(Head(s)) > U8Max THEN [ok |-> FALSE, val |-> 0]
    ELSE ParseU8Acc(Tail(s), acc * 10 + DigitVal(Head(s)))

ParseU8(s) ==
    IF s = << >> \/ (\E i \in 1..Len(s) : ~IsDigit(s[i]))
    THEN [ok |-> FALSE, val |-> 0]
    ELSE ParseU8Acc(s, 0)

-----------------------------------------------------------------------------
(* The configuration document and its TOML form                            *)

\* Config { input: Input { name }, display: Option<Display> }
MkConfig(name, display) == [input |-> [name |-> name], display |-> display]

\* Display { display: Option<String>, screen: u8 }
MkDisplay(display, screen) == [display |-> display, screen |-> screen]

\* DefaultConfig without the display group on linux.
DefaultConfig_NoDisplay(o) == MkConfig(<< >>, None)

\* The document get_config() falls back to when the file cannot be read.
DefaultConfig(o) ==
    IF o = "linux"
    THEN MkConfig(<< >>, Some(MkDisplay(Some(<<":", "0">>), 0)))
    ELSE MkConfig(<< >>, None)

\* A TOML file is a sequence of lines <<kind, key, value text>>.
TableLine(name) == <<"table", name, << >>>>
KVLine(k, v) == <<"kv", k, v>>

\* Escaping of a TOML basic string: backslash and double quote.
RECURSIVE TomlEscape(_)
TomlEscape(s) ==
    IF s = << >> THEN << >>
    ELSE (IF Head(s) \in {"\\", "\""} THEN <<"\\", Head(s)>> ELSE <<Head(s)>>)
         \o TomlEscape(Tail(s))

RECURSIVE TomlUnescape(_)
TomlUnescape(t) ==
    IF t = << >> THEN << >>
    ELSE IF Head(t) = "\\" /\ Len(t) >= 2
         THEN <<t[2]>> \o TomlUnescape(Tail(Tail(t)))
         ELSE <<Head(t)>> \o TomlUnescape(Tail(t))

\* The string holds a single quote / three of them in a row / one at its end.
HasQuote(s) == \E i \in 1..Len(s) : s[i] = "'"
HasTripleQuote(s) ==
    \E i \in 1..(Len(s) - 2) : s[i] = "'" /\ s[i + 1] = "'" /\ s[i + 2] = "'"
EndsWithQuote(s) == s # << >> /\ s[Len(s)] = "'"

\* TomlString writing the basic string without escaping it.
TomlString_Raw(s) ==
    IF ~HasQuote(s) THEN <<"'">> \o s \o <<"'">>
    ELSE IF ~HasTripleQuote(s) /\ ~EndsWithQuote(s)
    THEN <<"'", "'", "'">> \o s \o <<"'", "'", "'">>
    ELSE <<"\"">> \o s \o <<"\"">>

\* The pretty serializer of the toml crate writes a string without control
\* characters as a literal string: '...' when it holds no single quote,
\* '''...''' when it holds some but neither three in a row nor one at its
\* end, and as an escaped basic string "..." otherwise.
TomlString(s) ==
    IF ~HasQuote(s) THEN <<"'">> \o s \o <<"'">>
    ELSE IF ~HasTripleQuote(s) /\ ~EndsWithQuote(s)
    THEN <<"'", "'", "'">> \o s \o <<"'", "'", "'">>
    ELSE <<"\"">> \o TomlEscape(s) \o <<"\"">>

\* toml::to_string_pretty(config)
TomlSerialize(c) ==
    <<TableLine("input"), KVLine("name", TomlString(c.input.name))>>
    \o (IF c.display = None THEN << >>
        ELSE <<TableLine("display")>>
             \o (IF c.display[1].display = None THEN << >>
                 ELSE <<KVLine("display", TomlString(c.display[1].display[1]))>>)
             \o <<KVLine("screen", U8ToString(c.display[1].screen))>>)

\* The value a piece of value text denotes.
TomlValue(v) ==
    IF Len(v) >= 6 /\ SubSeq(v, 1, 3) = <<"'", "'", "'">>
                   /\ SubSeq(v, Len(v) - 2, Len(v)) = <<"'", "'", "'">>
    THEN [kind |-> "str", s |-> SubSeq(v, 4, Len(v) - 3), n |-> 0]
    ELSE IF Len(v) >= 2 /\ v[1] = "'" /\ v[Len(v)] = "'"
    THEN [kind |-> "str", s |-> SubSeq(v, 2, Len(v) - 1), n |-> 0]
    ELSE IF Len(v) >= 2 /\ v[1] = "\"" /\ v[Len(v)] = "\""
    THEN [kind |-> "str", s |-> TomlUnescape(SubSeq(v, 2, Len(v) - 1)), n |-> 0]
    ELSE IF ParseU8(v).ok
    THEN [kind |-> "int", s |-> << >>, n |-> ParseU8(v).val]
    ELSE [kind |-> "bad", s |-> << >>, n |-> 0]

\* The table a line belongs to: the name on the latest table header.
RECURSIVE TableOf(_, _)
TableOf(lines, i) ==
    IF i = 0 THEN ""
    ELSE IF lines[i][1] = "table" THEN lines[i][2]
    ELSE TableOf(lines, i - 1)

TomlEntries(lines, t, k) ==
    {i \in 1..Len(lines) : lines[i][1] = "kv" /\ lines[i][2] = k /\ TableOf(lines, i) = t}

TomlHasTable(lines, t) == \E i \in 1..Len(lines) : lines[i] = TableLine(t)

TomlField(lines, t, k) == TomlValue(lines[CHOOSE i \in TomlEntries(lines, t, k) : TRUE][3])

\* toml::from_str::<Config>(s): Err unless the text is well formed and holds
\* input.name (a string) and, when there is a display table, display.screen
\* (an integer) and at most one display.display (a string).
TomlParse(lines) ==
    LET wellFormed ==
            \A i \in 1..Len(lines) :
                \/ lines[i][1] = "table"
                \/ lines[i][1] = "kv" /\ TomlValue(lines[i][3]).kind # "bad"
        hasName ==
            /\ TomlHasTable(lines, "input")
            /\ Cardinality(TomlEntries(lines, "input", "name")) = 1
            /\ TomlField(lines, "input", "name").kind = "str"
        hasDisplay == TomlHasTable(lines, "display")
        nDp == Cardinality(TomlEntries(lines, "display", "display"))
        displayOk ==
            /\ Cardinality(TomlEntries(lines, "display", "screen")) = 1
            /\ TomlField(lines, "display", "screen").kind = "int"
            /\ nDp <= 1
            /\ nDp = 1 => TomlField(lines, "display", "display").kind = "str"
    IN  IF ~(wellFormed /\ hasName /\ (hasDisplay => displayOk))
        THEN [ok |-> FALSE, config |-> DefaultConfig("")]
        ELSE [ok |-> TRUE,
              config |->
                MkConfig(TomlField(lines, "input", "name").s,
                         IF ~hasDisplay THEN None
                         ELSE Some(MkDisplay(
                                IF nDp = 0 THEN None
                                ELSE Some(TomlField(lines, "display", "display").s),
                                TomlField(lines, "display", "screen").n)))]

\* The file system entry of the config file: whether it exists, whether
\* fs::read_to_string() can read it (a file that is not valid UTF-8 cannot),
\* and its lines when it can.
NoFile == [exists |-> FALSE, readable |-> FALSE, lines |-> << >>]
FileWith(lines) == [exists |-> TRUE, readable |-> TRUE, lines |-> lines]
UnreadableFile == [exists |-> TRUE, readable |-> FALSE, lines |-> << >>]

\* get_config(): the parsed file, or the platform default when it cannot be
\* read; Err only when the file is read but does not parse.
GetConfig(f, o) ==
    IF f.exists /\ f.readable THEN TomlParse(f.lines)
    ELSE [ok |-> TRUE, config |-> DefaultConfig(o)]

-----------------------------------------------------------------------------
(* The field model                                                         *)

\* ConfigKeyPointer::String(*mut String) / ::Number(*mut u8): the pointer
\* is the path of the document slot it points to.
StringPtr(slot) == [kind |-> "String", slot |-> slot]
NumberPtr(slot) == [kind |-> "Number", slot |-> slot]

\* ConfigKey { key_type, ptr, name, ypos }
ConfigKey(key_type, ptr, name) ==
    [key_type |-> key_type, ptr |-> ptr, name |-> name, ypos |-> -1]

\* BuildSections without the Display section.
BuildSections_InputOnly(c) ==
    <<[name |-> "Input",
       keys |-> <<ConfigKey("Button", None, "Automatic Setup"),
                  ConfigKey("String", Some(StringPtr("input.name")), "Name")>>]>>

\* The sections built from the document, before layout.
BuildSections(c) ==
    <<[name |-> "Input",
       keys |-> <<ConfigKey("Button", None, "Automatic Setup"),
                  ConfigKey("String", Some(StringPtr("input.name")), "Name")>>]>>
    \o (IF c.display = None THEN << >>
        ELSE <<[name |-> "Display",
                keys |-> <<ConfigKey("Button", None, "Automatic Setup")>>
                         \o (IF c.display[1].display = None THEN << >>
                             ELSE <<ConfigKey("String",
                                              Some(StringPtr("display.display")),
                                              "Display")>>)
                         \o <<ConfigKey("Number",
                                        Some(NumberPtr("display.screen")),
                                        "Screen")>>]>>)

\* The value of line_buf when the loop over the sections reaches section s
\* (1-based): it starts at 1, grows by 2 per section and by 1 per key.
RECURSIVE LineBufAt(_, _)
LineBufAt(secs, s) ==
    IF s = 1 THEN 1
    ELSE LineBufAt(secs, s - 1) + 2 + Len(secs[s - 1].keys)

\* Layout giving a section one row, not two, before its first key.
Layout_NoHeaderRow(secs) ==
    [s \in 1..Len(secs) |->
        [secs[s] EXCEPT !.keys =
            [k \in 1..Len(secs[s].keys) |->
                [secs[s].keys[k] EXCEPT !.ypos = LineBufAt(secs, s) + 1 + (k - 1)]]]]

\* The first rendering of the form: key.ypos = line_buf for every key.
Layout(secs) ==
    [s \in 1..Len(secs) |->
        [secs[s] EXCEPT !.keys =
            [k \in 1..Len(secs[s].keys) |->
                [secs[s].keys[k] EXCEPT !.ypos = LineBufAt(secs, s) + 2 + (k - 1)]]]]

\* **ptr (read)
SlotGet(c, slot) ==
    CASE slot = "input.name" -> c.input.name
      [] slot = "display.display" -> c.display[1].display[1]
      [] slot = "display.screen" -> c.display[1].screen

\* **ptr = v
SlotSet(c, slot, v) ==
    CASE slot = "input.name" -> [c EXCEPT !.input.name = v]
      [] slot = "display.display" -> [c EXCEPT !.display[1].display[1] = v]
      [] slot = "display.screen" -> [c EXCEPT !.display[1].screen = v]

\* &key_sections[cur.section].keys[cur.key]
KeyAt(secs, loc) == secs[loc.section + 1].keys[loc.key + 1]

cur_key == KeyAt(key_sections, cur)

\* cur_val_str: the current field's value as a string, "" for a Button.
CurValStr(c, k) ==
    IF k.key_type = "Button" THEN << >>
    ELSE IF k.ptr[1].kind = "String" THEN SlotGet(c, k.ptr[1].slot)
    ELSE U8ToString(SlotGet(c, k.ptr[1].slot))

\* The sum of the field counts of all sections.
RECURSIVE FieldCount(_)
FieldCount(secs) ==
    IF secs = << >> THEN 0 ELSE Len(Head(secs).keys) + FieldCount(Tail(secs))

-----------------------------------------------------------------------------
(* The window                                                              *)
(*                                                                         *)
(* Of the window the model keeps the field rows: for the row key.ypos, the *)
(* marker written at column 0 and the text handed to the colour macros for *)
(* the value, which starts at column val_xpos().                           *)

\* format!("{:?}", s) for a string: quoted, with '"' and '\' escaped.
RECURSIVE DebugEscape(_)
DebugEscape(s) ==
    IF s = << >> THEN << >>
    ELSE (IF Head(s) \in {"\"", "\\"} THEN <<"\\", Head(s)>> ELSE <<Head(s)>>)
         \o DebugEscape(Tail(s))

DebugStr(s) == <<"\"">> \o DebugEscape(s) \o <<"\"">>

\* The value text of a field's line in the first rendering: nothing for a
\* Button, {:?} of **val for a String, {} of **val for a Number.
ValueText(c, k) ==
    IF k.key_type = "Button" THEN << >>
    ELSE IF k.ptr[1].kind = "String" THEN DebugStr(SlotGet(c, k.ptr[1].slot))
    ELSE U8ToString(SlotGet(c, k.ptr[1].slot))

\* All keys of all sections, in order.
RECURSIVE AllKeys(_)
AllKeys(secs) ==
    IF secs = << >> THEN << >> ELSE Head(secs).keys \o AllKeys(Tail(secs))

\* The key laid out on row y.
KeyOnRow(secs, y) ==
    LET ks == AllKeys(secs)
    IN  ks[CHOOSE i \in 1..Len(ks) : ks[i].ypos = y]

FieldRows(secs) == {AllKeys(secs)[i].ypos : i \in 1..Len(AllKeys(secs))}

\* The rendering of the field list before the loop: every key's line
\* starts with " => " and shows the value stored in the document.
FirstRender(c, secs) ==
    [y \in FieldRows(secs) |->
        [marker |-> " => ", val |-> ValueText(c, KeyOnRow(secs, y))]]

\* cur_key.ypos: the row of the key at loc, no row (-1) when loc is the
\* place of no key.
CursorRow(secs, loc) ==
    IF /\ loc.section \in 0..(Len(secs) - 1)
       /\ loc.key \in 0..(Len(secs[loc.section + 1].keys) - 1)
    THEN KeyAt(secs, loc).ypos
    ELSE -1

\* colwmvaddstr!(&window, y, 0, t), for the row y: the macro is called by
\* config_interactive and defined in no file of the program; it is taken to
\* write t, coloured as colw! colours it, at column 0 of the row.
colwmvaddstr(row, t) == [row EXCEPT !.marker = t]

\* window.mvaddstr(y, 0, t), for the row y.
mvaddstr(row, t) == [row EXCEPT !.marker = t]

\* colwaddstr!(&window, t) at column val_xpos() of a row: defined in no
\* file of the program either; it is taken to write t, coloured as colw!
\* colours it, at the cursor.
colwaddstr(row, t) == [row EXCEPT !.val = t]

\* MarkCursor without the " => " written on every row first.
MarkCursor_KeepsOld(w, secs, loc) ==
    [y \in DOMAIN w |->
        IF y = CursorRow(secs, loc) THEN mvaddstr(w[y], " >> ") ELSE w[y]]

\* The top of the loop outside of edit mode: " => " on every key's row,
\* then " >> " on the current key's row.
MarkCursor(w, secs, loc) ==
    [y \in DOMAIN w |->
        IF y = CursorRow(secs, loc)
        THEN mvaddstr(colwmvaddstr(w[y], " => "), " >> ")
        ELSE colwmvaddstr(w[y], " => ")]

\* The end of an iteration in edit mode: the current key's row is cleared
\* from val_xpos() on and the buffer is written there, {:?} for a String
\* key and {} for any other.
EditRender(w, k, b) ==
    [w EXCEPT ![k.ypos] =
        colwaddstr(w[k.ypos], IF k.key_type = "String" THEN DebugStr(b) ELSE b)]

-----------------------------------------------------------------------------
(* Cursor movement                                                         *)

\* MoveUp without the wrap to the last section.
MoveUp_NoWrap(loc, secs) ==
    IF loc.key = 0
    THEN [section |-> loc.section - 1, key |-> 0]
    ELSE [loc EXCEPT !.key = loc.key - 1]

\* MoveUp landing on the first instead of the last field of the section
\* it moves into.
MoveUp_FirstField(loc, secs) ==
    IF loc.key = 0
    THEN [section |-> IF loc.section = 0 THEN Len(secs) - 1 ELSE loc.section - 1,
          key |-> 0]
    ELSE [loc EXCEPT !.key = loc.key - 1]

\* The KeyUp arm, outside of edit mode.
MoveUp(loc, secs) ==
    IF loc.key = 0
    THEN LET s == IF loc.section = 0 THEN Len(secs) - 1 ELSE loc.section - 1
         IN  [section |-> s, key |-> Len(secs[s + 1].keys) - 1]
    ELSE [loc EXCEPT !.key = loc.key - 1]

\* MoveDown wrapping inside the current section.
MoveDown_WithinSection(loc, secs) ==
    IF loc.key = Len(secs[loc.section + 1].keys) - 1
    THEN [loc EXCEPT !.key = 0]
    ELSE [loc EXCEPT !.key = loc.key + 1]

\* The KeyDown arm, outside of edit mode.
MoveDown(loc, secs) ==
    IF loc.key = Len(secs[loc.section + 1].keys) - 1
    THEN [section |-> IF loc.section = Len(secs) - 1 THEN 0 ELSE loc.section + 1,
          key |-> 0]
    ELSE [loc EXCEPT !.key = loc.key + 1]

-----------------------------------------------------------------------------
(* Commit                                                                  *)

\* The base-10 value of a string of digits, as an unbounded integer.
RECURSIVE DecimalValue(_)
DecimalValue(s) ==
    IF s = << >> THEN 0
    ELSE DecimalValue(SubSeq(s, 1, Len(s) - 1)) * 10 + DigitVal(s[Len(s)])

\* CommitString storing the buffer with backslashes and quotes escaped.
CommitString_Escaped(c, slot, b) == SlotSet(c, slot, TomlEscape(b))

\* CommitString storing the buffer in input.name as well.
CommitString_AlsoName(c, slot, b) == [SlotSet(c, slot, b) EXCEPT !.input.name = b]

\* **ptr = buf.clone()
CommitString(c, slot, b) == SlotSet(c, slot, b)

\* CommitNumberParse without the filter: the buffer is parsed as typed.
CommitNumberParse_NoFilter(b) == ParseU8(b)

\* CommitNumberParse truncating the value to 8 bits instead of failing.
CommitNumberParse_Wrapping(b) ==
    [ok |-> FilterDigits(b) # << >>,
     val |-> DecimalValue(FilterDigits(b)) % (U8Max + 1)]

\* digits.parse::<u8>() of the buffer's digits
CommitNumberParse(b) == ParseU8(FilterDigits(b))

\* EnterEdit writing to a copy of the value: the document is left as it is.
EnterEdit_Dropped(c, k, b) ==
    [panic |-> \/ k.ptr = None
               \/ (k.ptr[1].kind = "Number" /\ ~CommitNumberParse(b).ok),
     conf |-> c]

\* The Enter arm in edit mode: the document after the commit, or a panic
\* (unwrap() of a None pointer or of a failed parse) that leaves it as it is.
EnterEdit(c, k, b) ==
    IF k.ptr = None THEN [panic |-> TRUE, conf |-> c]
    ELSE IF k.ptr[1].kind = "String"
    THEN [panic |-> FALSE, conf |-> CommitString(c, k.ptr[1].slot, b)]
    ELSE IF CommitNumberParse(b).ok
    THEN [panic |-> FALSE, conf |-> SlotSet(c, k.ptr[1].slot, CommitNumberParse(b).val)]
    ELSE [panic |-> TRUE, conf |-> c]

\* buf.pop()
Pop(b) == IF b = << >> THEN b ELSE SubSeq(b, 1, Len(b) - 1)

\* Push dropping every character that is not a digit.
Push_DigitsOnly(b, c) == IF IsDigit(c) THEN Append(b, c) ELSE b

\* buf.push(c)
Push(b, c) == Append(b, c)

-----------------------------------------------------------------------------
(* Initial state: get_config() has returned Ok, the field model is built   *)
(* and laid out, and the loop is about to read its first key.              *)

\* A document stored by an earlier session: no display.display, screen 3.
StoredConfig == MkConfig(<<"1">>, Some(MkDisplay(None, 3)))

\* The (config file, platform) pairs a session starts from.
InitStores ==
    {<<NoFile, "linux">>,
     <<NoFile, "other">>,
     <<UnreadableFile, "other">>,
     <<FileWith(TomlSerialize(StoredConfig)), "linux">>}

\* No edit in progress and none just committed.
NoEdit(loc) ==
    /\ editEntryCur = loc
    /\ editEntryStale = FALSE
    /\ replay = << >>
    /\ arrowInEdit = FALSE

NoRun(loc) == [k |-> "", n |-> 0, from |-> loc]

\* The window attributes init_curses_wcolors() leaves: colour pair 9, not
\* bold, nothing written.
InitSurface == [bold |-> FALSE, colour |-> 9, text |-> << >>]

NoFragment == [frag |-> << >>, bold |-> FALSE, colour |-> 9, wrote |-> << >>]

\* The colour pipeline at rest.
MarkupIdle ==
    /\ mpc = "idle"
    /\ string = << >>
    /\ lookahead_atomic = TRUE
    /\ result = << >>
    /\ escaped = << >>
    /\ frags = << >>
    /\ surface = InitSurface
    /\ last = NoFragment

Init ==
    \E st \in InitStores :
        /\ file = st[1]
        /\ os = st[2]
        /\ GetConfig(st[1], st[2]).ok
        /\ conf = GetConfig(st[1], st[2]).config
        /\ key_sections = Layout(BuildSections(GetConfig(st[1], st[2]).config))
        /\ cur = [section |-> 0, key |-> 0]
        /\ edit = FALSE
        /\ buf = << >>
        /\ pc = "loop"
        /\ key = ""
        /\ prev_edit = FALSE
        /\ nkeys = 0
        /\ saveCalls = << >>
        /\ saveResult = "none"
        /\ reloaded = None
        /\ loaded = GetConfig(st[1], st[2]).config
        /\ editEntryConf = GetConfig(st[1], st[2]).config
        /\ confirmed = << >>
        /\ run = NoRun([section |-> 0, key |-> 0])
        /\ NoEdit([section |-> 0, key |-> 0])
        /\ MarkupIdle
        /\ window = MarkCursor(
                        FirstRender(GetConfig(st[1], st[2]).config,
                                    Layout(BuildSections(GetConfig(st[1], st[2]).config))),
                        Layout(BuildSections(GetConfig(st[1], st[2]).config)),
                        [section |-> 0, key |-> 0])

-----------------------------------------------------------------------------
(* The editor loop: one action per arm of `match window.getch()`.          *)

\* What an iteration draws after its match, and what the top of the next
\* iteration draws before it blocks in getch(): the buffer when editing,
\* the markers when not; nothing once the loop is left.
Render ==
    window' = IF pc' # "loop" THEN window
              ELSE IF edit' THEN EditRender(window, KeyAt(key_sections, cur'), buf')
              ELSE MarkCursor(window, key_sections, cur')

\* What the key k does to the buffer in edit mode, arm by arm of the match.
ReplayKey(b, k) ==
    IF k = "Backspace" THEN Pop(b)
    ELSE IF k = "Space" THEN Push(b, " ")
    ELSE IF k \in CharKeys THEN Push(b, k)
    ELSE b

\* The history of the edit in progress, kept through the iteration that
\* commits it and dropped by the next: where it began, whether the buffer
\* it found differed from the field's value, that value with the keys
\* pressed since applied to it, and whether an arrow key was among them.
Track ==
    IF ~edit /\ edit'
    THEN /\ editEntryCur' = cur
         /\ editEntryStale' = (buf # CurValStr(conf, cur_key))
         /\ replay' = CurValStr(conf, cur_key)
         /\ arrowInEdit' = FALSE
    ELSE IF edit /\ edit'
    THEN /\ replay' = ReplayKey(replay, key')
         /\ arrowInEdit' = (arrowInEdit \/ key' \in {"Up", "Down"})
         /\ UNCHANGED <<editEntryCur, editEntryStale>>
    ELSE IF edit /\ key' = "Enter"
    THEN UNCHANGED <<editEntryCur, editEntryStale, replay, arrowInEdit>>
    ELSE /\ editEntryCur' = cur'
         /\ editEntryStale' = FALSE
         /\ replay' = << >>
         /\ arrowInEdit' = FALSE

\* window.getch() returns k.
Read(k) ==
    /\ pc = "loop"
    /\ nkeys < MaxKeys
    /\ key' = k
    /\ prev_edit' = edit
    /\ nkeys' = nkeys + 1
    /\ UNCHANGED markup_vars

\* KeyEscape storing the buffer of a text field before leaving edit mode.
KeyEscape_Commits ==
    /\ Read("Esc")
    /\ edit' = FALSE
    /\ conf' = IF edit /\ cur_key.key_type = "String"
               THEN SlotSet(conf, cur_key.ptr[1].slot, buf)
               ELSE conf
    /\ run' = NoRun(cur)
    /\ UNCHANGED <<os, file, key_sections, cur, buf, pc,
                   saveCalls, saveResult, reloaded, loaded, editEntryConf, confirmed>>
    /\ Render
    /\ Track

\* Some(Input::Character('\u{1b}'))
KeyEscape ==
    /\ Read("Esc")
    /\ edit' = FALSE
    /\ run' = NoRun(cur)
    /\ UNCHANGED <<os, file, conf, key_sections, cur, buf, pc,
                   saveCalls, saveResult, reloaded, loaded, editEntryConf, confirmed>>
    /\ Render
    /\ Track

\* Some(Input::KeyEnter) | Some(Input::Character('\n')), not editing:
\* break, then save_config(conf), which succeeds or fails.
KeyEnterNavigate ==
    /\ Read("Enter")
    /\ ~edit
    /\ saveCalls' = Append(saveCalls, conf)
    /\ \E ok \in BOOLEAN :
          /\ file' = (IF ok THEN FileWith(TomlSerialize(conf)) ELSE file)
          /\ saveResult' = (IF ok THEN "Ok" ELSE "Err")
          /\ pc' = (IF ok THEN "done" ELSE "error")
    /\ run' = NoRun(cur)
    /\ UNCHANGED <<os, conf, key_sections, cur, edit, buf,
                   reloaded, loaded, editEntryConf, confirmed>>
    /\ Render
    /\ Track

\* Some(Input::KeyEnter) | Some(Input::Character('\n')), editing: commit.
KeyEnterEdit ==
    /\ Read("Enter")
    /\ edit
    /\ LET r == EnterEdit(conf, cur_key, buf)
       IN  /\ conf' = r.conf
           /\ pc' = IF r.panic THEN "panicked" ELSE "loop"
           /\ edit' = r.panic
           /\ confirmed' = IF r.panic THEN confirmed
                           ELSE Append(confirmed, [slot |-> cur_key.ptr[1].slot,
                                                   text |-> buf])
    /\ run' = NoRun(cur)
    /\ UNCHANGED <<os, file, key_sections, cur, buf, saveCalls, saveResult, reloaded, loaded,
                   editEntryConf>>
    /\ Render
    /\ Track

\* KeySpace entering edit mode on a Button as on any other key.
KeySpace_EditsButton ==
    /\ Read("Space")
    /\ IF ~edit
       THEN /\ edit' = TRUE
            /\ buf' = CurValStr(conf, cur_key)
            /\ editEntryConf' = conf
       ELSE /\ buf' = Push(buf, " ")
            /\ UNCHANGED <<edit, editEntryConf>>
    /\ run' = NoRun(cur)
    /\ UNCHANGED <<os, file, conf, key_sections, cur, pc,
                   saveCalls, saveResult, reloaded, loaded, confirmed>>
    /\ Render
    /\ Track

\* KeySpace entering edit mode with the buffer as it was left.
KeySpace_KeepsBuf ==
    /\ Read("Space")
    /\ IF ~edit
       THEN IF cur_key.key_type = "Button"
            THEN UNCHANGED <<edit, buf, editEntryConf>>
            ELSE /\ edit' = TRUE
                 /\ buf' = buf
                 /\ editEntryConf' = conf
       ELSE /\ buf' = Push(buf, " ")
            /\ UNCHANGED <<edit, editEntryConf>>
    /\ run' = NoRun(cur)
    /\ UNCHANGED <<os, file, conf, key_sections, cur, pc,
                   saveCalls, saveResult, reloaded, loaded, confirmed>>
    /\ Render
    /\ Track

\* Some(Input::Character(' '))
KeySpace ==
    /\ Read("Space")
    /\ IF ~edit
       THEN IF cur_key.key_type = "Button"
            THEN UNCHANGED <<edit, buf, editEntryConf>>
            ELSE /\ edit' = TRUE
                 /\ buf' = CurValStr(conf, cur_key)
                 /\ editEntryConf' = conf
       ELSE /\ buf' = Push(buf, " ")
            /\ UNCHANGED <<edit, editEntryConf>>
    /\ run' = NoRun(cur)
    /\ UNCHANGED <<os, file, conf, key_sections, cur, pc,
                   saveCalls, saveResult, reloaded, loaded, confirmed>>
    /\ Render
    /\ Track

\* KeyUp moving the cursor in edit mode as well.
KeyUp_MovesInEdit ==
    /\ Read("Up")
    /\ cur' = MoveUp(cur, key_sections)
    /\ run' = IF edit THEN NoRun(cur)
              ELSE IF run.k = "Up" THEN [run EXCEPT !.n = run.n + 1]
              ELSE [k |-> "Up", n |-> 1, from |-> cur]
    /\ UNCHANGED <<os, file, conf, key_sections, edit, buf, pc,
                   saveCalls, saveResult, reloaded, loaded, editEntryConf, confirmed>>
    /\ Render
    /\ Track

\* Some(Input::KeyUp)
KeyUp ==
    /\ Read("Up")
    /\ cur' = IF ~edit THEN MoveUp(cur, key_sections) ELSE cur
    /\ run' = IF edit THEN NoRun(cur)
              ELSE IF run.k = "Up" THEN [run EXCEPT !.n = run.n + 1]
              ELSE [k |-> "Up", n |-> 1, from |-> cur]
    /\ UNCHANGED <<os, file, conf, key_sections, edit, buf, pc,
                   saveCalls, saveResult, reloaded, loaded, editEntryConf, confirmed>>
    /\ Render
    /\ Track

\* KeyDown moving the cursor in edit mode as well.
KeyDown_MovesInEdit ==
    /\ Read("Down")
    /\ cur' = MoveDown(cur, key_sections)
    /\ run' = IF edit THEN NoRun(cur)
              ELSE IF run.k = "Down" THEN [run EXCEPT !.n = run.n + 1]
              ELSE [k |-> "Down", n |-> 1, from |-> cur]
    /\ UNCHANGED <<os, file, conf, key_sections, edit, buf, pc,
                   saveCalls, saveResult, reloaded, loaded, editEntryConf, confirmed>>
    /\ Render
    /\ Track

\* Some(Input::KeyDown)
KeyDown ==
    /\ Read("Down")
    /\ cur' = IF ~edit THEN MoveDown(cur, key_sections) ELSE cur
    /\ run' = IF edit THEN NoRun(cur)
              ELSE IF run.k = "Down" THEN [run EXCEPT !.n = run.n + 1]
              ELSE [k |-> "Down", n |-> 1, from |-> cur]
    /\ UNCHANGED <<os, file, conf, key_sections, edit, buf, pc,
                   saveCalls, saveResult, reloaded, loaded, editEntryConf, confirmed>>
    /\ Render
    /\ Track

\* Some(Input::KeyBackspace) | Some(Input::Character('\u{7f}'))
KeyBackspace ==
    /\ Read("Backspace")
    /\ buf' = Pop(buf)
    /\ run' = NoRun(cur)
    /\ UNCHANGED <<os, file, conf, key_sections, cur, edit, pc,
                   saveCalls, saveResult, reloaded, loaded, editEntryConf, confirmed>>
    /\ Render
    /\ Track

\* Some(Input::Character(c))
KeyCharacter ==
    \E c \in CharKeys :
        /\ Read(c)
        /\ buf' = Push(buf, c)
        /\ run' = NoRun(cur)
        /\ UNCHANGED <<os, file, conf, key_sections, cur, edit, pc,
                       saveCalls, saveResult, reloaded, loaded, editEntryConf, confirmed>>
        /\ Render
        /\ Track

\* _ => ()
KeyOther ==
    /\ Read("Other")
    /\ run' = NoRun(cur)
    /\ UNCHANGED <<os, file, conf, key_sections, cur, edit, buf, pc,
                   saveCalls, saveResult, reloaded, loaded, editEntryConf, confirmed>>
    /\ Render
    /\ Track

\* The get_config() that follows a session whose save succeeded.
Reload ==
    /\ pc = "done"
    /\ reloaded' = Some(GetConfig(file, os))
    /\ pc' = "reloaded"
    /\ UNCHANGED <<os, file, conf, key_sections, cur, edit, buf, key, prev_edit, nkeys,
                   saveCalls, saveResult, loaded, editEntryConf, confirmed, run, window,
                   editEntryCur, editEntryStale, replay, arrowInEdit>>
    /\ UNCHANGED markup_vars

Next ==
    \/ KeyEscape
    \/ KeyEnterNavigate
    \/ KeyEnterEdit
    \/ KeySpace
    \/ KeyUp
    \/ KeyDown
    \/ KeyBackspace
    \/ KeyCharacter
    \/ KeyOther
    \/ Reload

Spec == Init /\ [][Next]_vars

-----------------------------------------------------------------------------
(* The colour pipeline (src/src/stdout.rs)                                 *)
(*                                                                         *)
(* The byte \x1b is the one-element string ESC; every other character is   *)
(* a one-character string, as in the editor.                               *)

\* Upper bound on the length of the strings given to col!.
MaxLen == 4

\* Upper bound on the length of the strings given to colw!.
MaxLenW == 2

\* Upper bound on the number of fragments of the strings given directly to
\* escaped_to_printw.
MaxFrags == 2

ESC == "ESC"

\* "\x1b[<bold>;<colour>m"
Sgr(bold, colour) == <<ESC, "[", bold, ";">> \o colour \o <<"m">>

\* "\x1b[1;39m", the reset every replacement ends with, and "\x1b[0;39m",
\* the neutral style of the inside of a span.
Reset == Sgr("1", <<"3", "9">>)
Neutral == Sgr("0", <<"3", "9">>)

\* The leftmost of a non-empty set of positions: where a regex or
\* str::replace finds its next match.
Leftmost(at) == CHOOSE p \in at : \A q \in at : p <= q

\* Whether t occurs in s at position i.
StartsAt(s, i, t) ==
    /\ i + Len(t) - 1 <= Len(s)
    /\ \A j \in 1..Len(t) : s[i + j - 1] = t[j]

\* The rules `[class]+` -> style ${0} "\x1b[1;39m", in the order applied.
CharRules ==
    <<[class |-> {"+"}, style |-> Sgr("1", <<"3", "6">>)],
      [class |-> {":", "/", "="}, style |-> Sgr("1", <<"3", "2">>)],
      [class |-> {",", "-", "|"}, style |-> Sgr("0", <<"3", "2">>)],
      [class |-> {"*"}, style |-> Sgr("1", <<"3", "1">>)],
      [class |-> {"{", "}"}, style |-> Sgr("1", <<"3", "5">>)]>>

\* The length of the longest prefix of s made of characters of class.
RECURSIVE RunLen(_, _)
RunLen(s, class) ==
    IF s = << >> \/ Head(s) \notin class THEN 0 ELSE 1 + RunLen(Tail(s), class)

\* replace_all of `[class]+`: every maximal run of class characters is put
\* between style and Reset.
RECURSIVE WrapRuns(_, _, _)
WrapRuns(s, class, style) ==
    LET at == {i \in 1..Len(s) : s[i] \in class}
    IN  IF at = {} THEN s
        ELSE LET p == Leftmost(at)
                 n == RunLen(SubSeq(s, p, Len(s)), class)
             IN  SubSeq(s, 1, p - 1) \o style \o SubSeq(s, p, p + n - 1) \o Reset
                 \o WrapRuns(SubSeq(s, p + n, Len(s)), class, style)

\* The position after the longest run of digits of s that starts at i.
RECURSIVE SkipDigits(_, _)
SkipDigits(s, i) ==
    IF i <= Len(s) /\ IsDigit(s[i]) THEN SkipDigits(s, i + 1) ELSE i

\* `\x1b\[\d*;\d+m` at position i of s: the position after the match, or 0.
CodeEnd(s, i) ==
    IF ~StartsAt(s, i, <<ESC, "[">>) THEN 0
    ELSE LET semi == SkipDigits(s, i + 2)
             m == SkipDigits(s, semi + 1)
         IN  IF /\ semi <= Len(s) /\ s[semi] = ";"
                /\ m > semi + 1
                /\ m <= Len(s) /\ s[m] = "m"
             THEN m + 1 ELSE 0

\* `\x1b\[\d*;\d+m=\x1b\[\d*;\d+m>` at position i of s: the position after
\* the match, or 0.
ArrowEnd(s, i) ==
    LET e == CodeEnd(s, i)
    IN  IF e = 0 \/ e > Len(s) \/ s[e] # "=" THEN 0
        ELSE LET f == CodeEnd(s, e + 1)
             IN  IF f = 0 \/ f > Len(s) \/ s[f] # ">" THEN 0 ELSE f + 1

\* The exception rule: a styled "=" followed by ">" becomes one arrow.
RECURSIVE ReplaceArrows(_, _)
ReplaceArrows(s, i) ==
    LET at == {p \in i..Len(s) : ArrowEnd(s, p) # 0}
    IN  IF at = {} THEN SubSeq(s, i, Len(s))
        ELSE LET p == Leftmost(at)
             IN  SubSeq(s, i, p - 1) \o Sgr("1", <<"3", "6">>) \o <<"=", ">">> \o Reset
                 \o ReplaceArrows(s, ArrowEnd(s, p))

\* The first loop of color_str_escape: the five character rules from rule
\* n on, then the exception.
RECURSIVE CharPass(_, _)
CharPass(s, n) ==
    IF n > Len(CharRules) THEN ReplaceArrows(s, 1)
    ELSE CharPass(WrapRuns(s, CharRules[n].class, CharRules[n].style), n + 1)

\* The surrounding rules `(open)(?:(?=(\\?))\2.)*?(close)` with the style
\* of their delimiters, in the order applied.
Surrounding ==
    <<[open |-> "[", close |-> "]", style |-> Sgr("1", <<"3", "2">>)],
      [open |-> "(", close |-> ")", style |-> Sgr("0", <<"3", "2">>)],
      [open |-> "\"", close |-> "\"", style |-> Sgr("1", <<"3", "2">>)],
      [open |-> "'", close |-> "'", style |-> Sgr("0", <<"3", "2">>)],
      [open |-> "<", close |-> ">", style |-> Sgr("1", <<"3", "2">>)]>>

\* `(?:(?=(\\?))\2.)*?(close)` from position p of s: the position of the
\* closing character matched, or 0.  The lazy loop first tries to close; if
\* it cannot, it takes a backslash together with the character after it,
\* or else one character.  A regex engine whose look-ahead is not atomic
\* retries, when the rest fails, with the backslash taken alone.
RECURSIVE SpanEnd(_, _, _, _)
SpanEnd(s, p, close, atomic) ==
    LET at == {q \in p..Len(s) : s[q] = close \/ s[q] = "\\"}
    IN  IF at = {} THEN 0
        ELSE LET q == Leftmost(at)
                 paired == IF q + 1 <= Len(s) THEN SpanEnd(s, q + 2, close, atomic) ELSE 0
             IN  IF s[q] = close THEN q
                 ELSE IF paired # 0 THEN paired
                 ELSE IF atomic THEN 0
                 ELSE SpanEnd(s, q + 1, close, atomic)

\* str::replace("\x1b[1;39m", "\x1b[0;39m")
RECURSIVE ReplaceResets(_)
ReplaceResets(t) ==
    LET at == {p \in 1..Len(t) : StartsAt(t, p, Reset)}
    IN  IF at = {} THEN t
        ELSE LET p == Leftmost(at)
             IN  SubSeq(t, 1, p - 1) \o Neutral
                 \o ReplaceResets(SubSeq(t, p + Len(Reset), Len(t)))

\* The replacement of one match: the delimiters in the rule's style, the
\* inside in the neutral style with its resets made neutral.
SpanReplacement(rule, inside) ==
    rule.style \o <<rule.open>> \o Neutral \o ReplaceResets(inside)
    \o rule.style \o <<rule.close>> \o Reset

\* replace_all of one surrounding rule, from position i of s on.
RECURSIVE ReplaceSpans(_, _, _, _)
ReplaceSpans(s, i, rule, atomic) ==
    LET at == {p \in i..Len(s) :
                  s[p] = rule.open /\ SpanEnd(s, p + 1, rule.close, atomic) # 0}
    IN  IF at = {} THEN SubSeq(s, i, Len(s))
        ELSE LET p == Leftmost(at)
                 e == SpanEnd(s, p + 1, rule.close, atomic)
             IN  SubSeq(s, i, p - 1) \o SpanReplacement(rule, SubSeq(s, p + 1, e - 1))
                 \o ReplaceSpans(s, e + 1, rule, atomic)

\* The second loop of color_str_escape: the surrounding rules from rule n on.
RECURSIVE SurroundingPass(_, _, _)
SurroundingPass(s, n, atomic) ==
    IF n > Len(Surrounding) THEN s
    ELSE SurroundingPass(ReplaceSpans(s, 1, Surrounding[n], atomic), n + 1, atomic)

\* The rules `\\([chars])` -> style ${1} "\x1b[1;39m", in the order applied.
SurEscape ==
    <<[chars |-> {"[", "]", "\"", "<", ">"}, style |-> Sgr("1", <<"3", "2">>)],
      [chars |-> {"(", ")", "'"}, style |-> Sgr("0", <<"3", "2">>)]>>

\* replace_all of one escape rule: the backslash is dropped and the
\* character after it put between style and Reset.
RECURSIVE Unescape(_, _)
Unescape(s, rule) ==
    LET at == {p \in 1..(Len(s) - 1) : s[p] = "\\" /\ s[p + 1] \in rule.chars}
    IN  IF at = {} THEN s
        ELSE LET p == Leftmost(at)
             IN  SubSeq(s, 1, p - 1) \o rule.style \o <<s[p + 1]>> \o Reset
                 \o Unescape(SubSeq(s, p + 2, Len(s)), rule)

\* The third loop of color_str_escape.
EscapePass(s) == Unescape(Unescape(s, SurEscape[1]), SurEscape[2])

\* color_str_escape(string)
color_str_escape(s, atomic) == EscapePass(SurroundingPass(CharPass(s, 1), 1, atomic))

\* escaped.split("\x1b")
RECURSIVE SplitEsc(_)
SplitEsc(s) ==
    LET at == {i \in 1..Len(s) : s[i] = ESC}
    IN  IF at = {} THEN <<s>>
        ELSE <<SubSeq(s, 1, Leftmost(at) - 1)>>
             \o SplitEsc(SubSeq(s, Leftmost(at) + 1, Len(s)))

\* `(?<=\[)\d*;\d+(?=m)` matched right after the character at position j
\* of s: whether it matches, the digits before and after the ";", and the
\* position of the "m".
CodeAt(s, j) ==
    LET semi == SkipDigits(s, j + 1)
        m == SkipDigits(s, semi + 1)
    IN  IF /\ j >= 1 /\ j <= Len(s) /\ s[j] = "["
           /\ semi <= Len(s) /\ s[semi] = ";"
           /\ m > semi + 1
           /\ m <= Len(s) /\ s[m] = "m"
        THEN [found |-> TRUE, start |-> j, m |-> m,
              colors |-> <<SubSeq(s, j + 1, semi - 1), SubSeq(s, semi + 1, m - 1)>>]
        ELSE [found |-> FALSE, start |-> 0, m |-> 0, colors |-> << >>]

\* re.find(s): the leftmost match.  start is mat.start(), the 0-based
\* offset of the first character after the "[".
FindCode(s) ==
    IF \E j \in 1..Len(s) : CodeAt(s, j).found
    THEN CodeAt(s, CHOOSE j \in 1..Len(s) :
                      /\ CodeAt(s, j).found
                      /\ \A i \in 1..(j - 1) : ~CodeAt(s, i).found)
    ELSE CodeAt(s, 0)

\* BoldOn taking every bold field but "0" for bold.
BoldOn_NonZero(c) == c # <<"0">>

\* match colors[0] { "1" => attron(A_BOLD), _ => attroff(A_BOLD) }
BoldOn(c) == c = <<"1">>

\* colors[1] without its first character.
ColorOf(c) == Tail(c)

\* window.attron(ColorPair(n)).  The colour pair becomes n; what curses
\* does for pair 0 is not in the program's source: the pair becomes 0 or
\* stays (keep0).
AttronColorPair(surf, n, keep0) ==
    IF n = 0 /\ keep0 THEN surf ELSE [surf EXCEPT !.colour = n]

\* window.printw(t)
Printw(surf, t) == [surf EXCEPT !.text = surf.text \o t]

\* One iteration of the loop over the fragments: the surface afterwards,
\* the text written (None when the fragment is skipped) and whether the
\* iteration panicked in color.parse::<u8>().unwrap().
DoFragment(surf, s, keep0) ==
    LET mat == FindCode(s)
        bolded == [surf EXCEPT !.bold = BoldOn(mat.colors[1])]
        color == ColorOf(mat.colors[2])
        rest == SubSeq(s, mat.m + 1, Len(s))
    IN  IF ~mat.found
        THEN [panic |-> FALSE, surface |-> Printw(surf, s), wrote |-> Some(s)]
        ELSE IF mat.start > 1
        THEN [panic |-> FALSE, surface |-> surf, wrote |-> None]
        ELSE IF color = << >>
        THEN [panic |-> FALSE, surface |-> Printw(bolded, rest), wrote |-> Some(rest)]
        ELSE IF ~ParseU8(color).ok
        THEN [panic |-> TRUE, surface |-> bolded, wrote |-> None]
        ELSE [panic |-> FALSE,
              surface |-> Printw(AttronColorPair(bolded, ParseU8(color).val, keep0), rest),
              wrote |-> Some(rest)]

\* The characters of the strings given to color_str_escape in the model.
MarkupChars == {"a", "=", "[", "]", "(", ")", "\\"}

\* The strings over MarkupChars of length at most n.
RECURSIVE Strings(_)
Strings(n) ==
    IF n = 0 THEN {<< >>}
    ELSE Strings(n - 1) \cup {Append(t, c) : t \in Strings(n - 1), c \in MarkupChars}

\* The fragments of the strings given directly to escaped_to_printw:
\* "ab", "ab[1;32mc", "[1;32mHi", "[0;3mx", "[;34my", "[1;3256mz", "[1;30mk".
FragPool ==
    {<<"a", "b">>,
     <<"a", "b", "[", "1", ";", "3", "2", "m", "c">>,
     <<"[", "1", ";", "3", "2", "m", "H", "i">>,
     <<"[", "0", ";", "3", "m", "x">>,
     <<"[", ";", "3", "4", "m", "y">>,
     <<"[", "1", ";", "3", "2", "5", "6", "m", "z">>,
     <<"[", "1", ";", "3", "0", "m", "k">>}

\* The strings made of n fragments of the pool with "\x1b" between them.
RECURSIVE Joined(_)
Joined(n) ==
    IF n = 1 THEN FragPool
    ELSE {t \o <<ESC>> \o f : t \in Joined(n - 1), f \in FragPool}

EscapedInputs == UNION {Joined(n) : n \in 1..MaxFrags}

\* The editor is not running.
EditorIdle ==
    /\ os = "other"
    /\ file = NoFile
    /\ conf = DefaultConfig("other")
    /\ key_sections = Layout(BuildSections(DefaultConfig("other")))
    /\ cur = [section |-> 0, key |-> 0]
    /\ edit = FALSE
    /\ buf = << >>
    /\ pc = "idle"
    /\ key = ""
    /\ prev_edit = FALSE
    /\ nkeys = 0
    /\ saveCalls = << >>
    /\ saveResult = "none"
    /\ reloaded = None
    /\ loaded = DefaultConfig("other")
    /\ editEntryConf = DefaultConfig("other")
    /\ confirmed = << >>
    /\ run = NoRun([section |-> 0, key |-> 0])
    /\ NoEdit([section |-> 0, key |-> 0])
    /\ window = FirstRender(DefaultConfig("other"),
                            Layout(BuildSections(DefaultConfig("other"))))

\* A call of col!(string), which prints color_str_escape(string); a call
\* of colw!(window, string), which is
\* escaped_to_printw(window, color_str_escape(string)); or a call of
\* escaped_to_printw(window, escaped) alone.
InitMarkup ==
    /\ EditorIdle
    /\ result = None
    /\ frags = << >>
    /\ surface = InitSurface
    /\ last = NoFragment
    /\ \/ /\ mpc = "col"
          /\ string \in Strings(MaxLen)
          /\ lookahead_atomic \in BOOLEAN
          /\ escaped = << >>
       \/ /\ mpc = "colw"
          /\ string \in Strings(MaxLenW)
          /\ lookahead_atomic \in BOOLEAN
          /\ escaped = << >>
       \/ /\ mpc = "escaped"
          /\ string = << >>
          /\ lookahead_atomic = TRUE
          /\ escaped \in EscapedInputs

\* color_str_escape(string) returns, to print! in col! and to
\* escaped_to_printw in colw!.
ColorStrEscape ==
    /\ mpc \in {"col", "colw"}
    /\ result' = Some(color_str_escape(string, lookahead_atomic))
    /\ escaped' = IF mpc = "colw" THEN color_str_escape(string, lookahead_atomic)
                  ELSE escaped
    /\ mpc' = IF mpc = "colw" THEN "escaped" ELSE "returned"
    /\ UNCHANGED <<string, lookahead_atomic, frags, surface, last>>
    /\ UNCHANGED editor_vars

\* escaped_to_printw up to its loop: colour pair 9, bold on.
PrintwBegin ==
    /\ mpc = "escaped"
    /\ surface' = [surface EXCEPT !.colour = 9, !.bold = TRUE]
    /\ frags' = SplitEsc(escaped)
    /\ mpc' = "printw"
    /\ UNCHANGED <<string, lookahead_atomic, result, escaped, last>>
    /\ UNCHANGED editor_vars

\* One iteration of `for s in escaped.split("\x1b")`.
PrintFragment ==
    /\ mpc = "printw"
    /\ frags # << >>
    /\ \E r \in {DoFragment(surface, Head(frags), keep0) : keep0 \in BOOLEAN} :
          /\ surface' = r.surface
          /\ mpc' = IF r.panic THEN "panicked" ELSE "printw"
          /\ last' = [frag |-> Head(frags), bold |-> surface.bold,
                      colour |-> surface.colour, wrote |-> r.wrote]
    /\ frags' = Tail(frags)
    /\ UNCHANGED <<string, lookahead_atomic, result, escaped>>
    /\ UNCHANGED editor_vars

\* escaped_to_printw after its loop: colour pair 9, bold off.
PrintwEnd ==
    /\ mpc = "printw"
    /\ frags = << >>
    /\ surface' = [surface EXCEPT !.colour = 9, !.bold = FALSE]
    /\ mpc' = "printed"
    /\ UNCHANGED <<string, lookahead_atomic, result, escaped, frags, last>>
    /\ UNCHANGED editor_vars

NextMarkup ==
    \/ ColorStrEscape
    \/ PrintwBegin
    \/ PrintFragment
    \/ PrintwEnd

SpecMarkup == InitMarkup /\ [][NextMarkup]_vars

-----------------------------------------------------------------------------
(* Properties                                                              *)

\* The position of a field in document order, counting from 0.
Flat(loc, secs) == FieldCount(SubSeq(secs, 1, loc.section)) + loc.key

\* C1: after any sequence of key events the cursor is in bounds:
\* cur.section indexes a section and cur.key a field of that section.
C1_CursorInBounds ==
    /\ cur.section \in 0..(Len(key_sections) - 1)
    /\ cur.key \in 0..(Len(key_sections[cur.section + 1].keys) - 1)

\* C1 witness: Up pressed on the first field of the first section of a
\* two-section form has moved the cursor to the last field of the last one.
C1_Witness ==
    /\ key = "Up"
    /\ run = [k |-> "Up", n |-> 1, from |-> [section |-> 0, key |-> 0]]
    /\ Len(key_sections) = 2
    /\ cur = [section |-> 1, key |-> Len(key_sections[2].keys) - 1]

\* C2: in Navigate state Down moves the cursor to the next field in
\* document order and Up to the previous one, across section boundaries and
\* wrapping at both ends: after n presses of the same arrow key starting at
\* field number f, the cursor is on field number f + n (Down) or f - n (Up)
\* modulo the total number of fields.
C2_NavigateDocumentOrder ==
    LET total == FieldCount(key_sections)
        f == Flat(run.from, key_sections)
    IN  /\ run.k = "Down" => Flat(cur, key_sections) = (f + run.n) % total
        /\ run.k = "Up" => Flat(cur, key_sections) = (f + run.n * (total - 1)) % total

\* C2 witness: one Down on the last field of section Input has moved the
\* cursor to the first field of section Display.
C2_Witness ==
    /\ key = "Down"
    /\ run = [k |-> "Down", n |-> 1, from |-> [section |-> 0, key |-> 1]]
    /\ cur = [section |-> 1, key |-> 0]

\* C3: pressing Down, or Up, exactly totalFieldCount times in Navigate
\* state returns the cursor to the position it started from.
C3_FullCycleReturns ==
    (run.k \in {"Up", "Down"} /\ run.n = FieldCount(key_sections)) => cur = run.from

\* C3 witness: totalFieldCount presses of Down in a two-section form, started
\* away from the first field, have been made.
C3_Witness ==
    /\ run.k = "Down"
    /\ run.n = FieldCount(key_sections)
    /\ Len(key_sections) = 2
    /\ run.from # [section |-> 0, key |-> 0]

\* The last key was read in Edit state with the cursor on a field of type t.
KeyInEdit(k, t) == key = k /\ prev_edit /\ cur_key.key_type = t

\* C4: Escape pressed in Edit state returns to Navigate state and leaves
\* the whole document as it was when Edit was entered, whatever the buffer
\* holds.
C4_EscapeDiscards ==
    (key = "Esc" /\ prev_edit) => (pc = "loop" /\ ~edit /\ conf = editEntryConf)

\* C4 witness: Escape was pressed in Edit state with a buffer that differs
\* from the field's value.
C4_Witness ==
    /\ key = "Esc"
    /\ prev_edit
    /\ Len(buf) >= 2
    /\ buf # CurValStr(conf, cur_key)

\* C5: Enter pressed in Edit state on a Text field stores exactly the
\* buffer, character for character, and returns to Navigate state.
C5_TextCommitVerbatim ==
    KeyInEdit("Enter", "String") =>
        /\ pc = "loop"
        /\ ~edit
        /\ SlotGet(conf, cur_key.ptr[1].slot) = buf

\* C5 witness: a buffer holding a delimiter character, a backslash and a
\* space was committed to a Text field.
C5_Witness ==
    /\ KeyInEdit("Enter", "String")
    /\ buf = <<"'", "\\", " ">>

\* C6 as stated: Enter in Edit state on a Number field whose buffer holds
\* at least one digit stores the base-10 value of the digits and returns to
\* Navigate state.
C6_NumberCommitAnyDigits ==
    (KeyInEdit("Enter", "Number") /\ FilterDigits(buf) # << >>) =>
        /\ pc = "loop"
        /\ ~edit
        /\ conf.display[1].screen = DecimalValue(FilterDigits(buf))

\* C6 amended: Enter in Edit state on a Number field whose buffer holds at
\* least one digit, the digits denoting a value of at most 255, stores the
\* base-10 value of the digits (non-digits removed) and returns to Navigate
\* state.
C6_NumberCommitInRange ==
    (/\ KeyInEdit("Enter", "Number")
     /\ FilterDigits(buf) # << >>
     /\ DecimalValue(FilterDigits(buf)) <= U8Max) =>
        /\ pc = "loop"
        /\ ~edit
        /\ conf.display[1].screen = DecimalValue(FilterDigits(buf))

\* C6 witness: a buffer with a non-digit between its digits was committed.
C6_Witness ==
    /\ KeyInEdit("Enter", "Number")
    /\ buf = <<"0", "1", "'", "3">>
    /\ conf.display[1].screen = 13

\* C7: Enter in Edit state on a Number field whose buffer holds no digit is
\* rejected and recovered from: the session goes on, still in Edit state,
\* and the document is unchanged.
C7_NoDigitsRejected ==
    (KeyInEdit("Enter", "Number") /\ FilterDigits(buf) = << >>) =>
        /\ pc = "loop"
        /\ edit
        /\ conf = editEntryConf

\* C8: the Number field always holds a value in 0..255, and a commit whose
\* digits denote more than 255 leaves the stored value as it was.
C8_ScreenIsU8 ==
    /\ conf.display # None => conf.display[1].screen \in 0..U8Max
    /\ (KeyInEdit("Enter", "Number") /\ DecimalValue(FilterDigits(buf)) > U8Max) =>
           conf.display[1].screen = editEntryConf.display[1].screen

\* C8 witness: a buffer whose digits denote more than 255 was committed.
C8_Witness ==
    /\ KeyInEdit("Enter", "Number")
    /\ DecimalValue(FilterDigits(buf)) > U8Max

\* The document after one confirmed commit, by the rules of the editor:
\* text verbatim, a number as the value of the buffer's digits.
ApplyCommit(c, commit) ==
    IF commit.slot = "display.screen"
    THEN SlotSet(c, commit.slot, DecimalValue(FilterDigits(commit.text)))
    ELSE SlotSet(c, commit.slot, commit.text)

RECURSIVE ApplyCommits(_, _)
ApplyCommits(c, commits) ==
    IF commits = << >> THEN c
    ELSE ApplyCommits(ApplyCommit(c, Head(commits)), Tail(commits))

\* C9: when the loop ends by Enter in Navigate state, the document passed
\* to save_config is the loaded document with exactly the confirmed commits
\* applied in order.
C9_SavedIsLoadedPlusCommits ==
    pc \in {"done", "error", "reloaded"} =>
        /\ Len(saveCalls) = 1
        /\ saveCalls[1] = ApplyCommits(loaded, confirmed)

\* C9 witness: the default document was saved after one confirmed edit of
\* Name, with further text typed but never confirmed.
C9_Witness ==
    /\ pc = "done"
    /\ loaded = DefaultConfig("linux")
    /\ Len(confirmed) = 1
    /\ saveCalls[1].input.name = <<"1">>
    /\ buf = <<"1", "3">>

PlatformDefault(o) ==
    IF o = "linux"
    THEN [input |-> [name |-> << >>],
          display |-> <<[display |-> <<<<":", "0">>>>, screen |-> 0]>>]
    ELSE [input |-> [name |-> << >>], display |-> << >>]

Shape(secs) ==
    [s \in 1..Len(secs) |->
        [name |-> secs[s].name,
         fields |-> [k \in 1..Len(secs[s].keys) |->
                        <<secs[s].keys[k].key_type, secs[s].keys[k].name>>]]]

\* The shape the field model of document c is to have.
ExpectedShape(c) ==
    <<[name |-> "Input",
       fields |-> <<<<"Button", "Automatic Setup">>, <<"String", "Name">>>>]>>
    \o (IF c.display = << >> THEN << >>
        ELSE <<[name |-> "Display",
                fields |-> <<<<"Button", "Automatic Setup">>>>
                           \o (IF c.display[1].display = << >> THEN << >>
                               ELSE <<<<"String", "Display">>>>)
                           \o <<<<"Number", "Screen">>>>]>>)

\* The value a field of the field model shows: what its pointer points to.
FieldValue(c, k) == SlotGet(c, k.ptr[1].slot)

\* C12: the field model has section "Input" with a Button "Automatic
\* Setup" and a Text "Name", then section "Display" exactly when the
\* document has a display group, with a Button, a Text "Display" only when
\* display.display is present, and a Number "Screen"; every field shows its
\* own slot of the document; for the linux default document the values are
\* Name = "", Display = ":0" and Screen = 0.
C12_FieldModelShape ==
    /\ Shape(key_sections) = ExpectedShape(conf)
    /\ \A s \in 1..Len(key_sections) : \A k \in 1..Len(key_sections[s].keys) :
          LET f == key_sections[s].keys[k]
          IN  /\ f.key_type = "Button" <=> f.ptr = None
              /\ f.name = "Name" => FieldValue(conf, f) = conf.input.name
              /\ f.name = "Display" => FieldValue(conf, f) = conf.display[1].display[1]
              /\ f.name = "Screen" => FieldValue(conf, f) = conf.display[1].screen
    /\ (nkeys = 0 /\ file = NoFile /\ os = "linux") =>
          /\ Len(key_sections) = 2
          /\ FieldValue(conf, key_sections[1].keys[2]) = << >>
          /\ FieldValue(conf, key_sections[2].keys[2]) = <<":", "0">>
          /\ FieldValue(conf, key_sections[2].keys[3]) = 0

\* C12 witness: the field model of the linux default document, with both
\* sections and all five fields, at the start of the session.
C12_Witness ==
    /\ nkeys = 0
    /\ file = NoFile
    /\ os = "linux"
    /\ Len(key_sections) = 2
    /\ Len(key_sections[2].keys) = 3
    /\ key_sections[2].keys[2].name = "Display"

\* The step in which getch() returns key k to the loop.
Pressed(k) == pc = "loop" /\ nkeys' = nkeys + 1 /\ key' = k

\* C17: Space pressed outside of edit mode on a Button leaves the cursor,
\* the mode, the document and the field model as they are, and the loop
\* goes on.
C17_SpaceOnButtonNoChange ==
    [][(Pressed("Space") /\ ~edit /\ cur_key.key_type = "Button") =>
            /\ cur' = cur
            /\ edit' = FALSE
            /\ conf' = conf
            /\ key_sections' = key_sections
            /\ pc' = "loop"]_vars

\* C17 witness: Space was pressed outside of edit mode on the Button of the
\* Display section.
C17_Witness ==
    /\ key = "Space"
    /\ ~prev_edit
    /\ cur = [section |-> 1, key |-> 0]
    /\ cur_key.key_type = "Button"
    /\ ~edit

\* C18: Space pressed outside of edit mode on a String or Number key turns
\* edit mode on with the buffer holding the key's stored value (the string
\* itself; for a number its decimal digits without leading zeros), whatever
\* the buffer held; the document and the cursor stay as they are.
C18_SpaceSeedsBuffer ==
    [][(Pressed("Space") /\ ~edit /\ cur_key.key_type # "Button") =>
            /\ edit' = TRUE
            /\ pc' = "loop"
            /\ conf' = conf
            /\ cur' = cur
            /\ cur_key.key_type = "String" => buf' = FieldValue(conf, cur_key)
            /\ cur_key.key_type = "Number" =>
                  /\ buf' # << >>
                  /\ \A i \in 1..Len(buf') : IsDigit(buf'[i])
                  /\ Len(buf') > 1 => buf'[1] # "0"
                  /\ DecimalValue(buf') = FieldValue(conf, cur_key)]_vars

\* C18 witness: after the commit of "01" to Screen, Space on Screen seeded
\* the buffer with "1".
C18_Witness ==
    /\ key = "Space"
    /\ ~prev_edit
    /\ edit
    /\ cur_key.key_type = "Number"
    /\ conf.display[1].screen = 1
    /\ buf = <<"1">>
    /\ confirmed # << >>

\* The character a key appends to the buffer in edit mode.
CharOf(k) == IF k = "Space" THEN " " ELSE k

\* C19: in edit mode every character key, the space key included, appends
\* that character to the buffer and leaves the mode, the cursor and the
\* document as they are.
C19_CharacterAppends ==
    [][\A k \in CharKeys \cup {"Space"} :
          (Pressed(k) /\ edit) =>
              /\ buf' = buf \o <<CharOf(k)>>
              /\ edit' = TRUE
              /\ pc' = "loop"
              /\ cur' = cur
              /\ conf' = conf]_vars

\* C19 witness: a quote and then a space were typed into the buffer of the
\* Number key Screen.
C19_Witness ==
    /\ key = "Space"
    /\ prev_edit
    /\ edit
    /\ cur_key.key_type = "Number"
    /\ buf = <<"0", "'", " ">>

\* C20: whenever the loop blocks in getch() outside of edit mode, the row
\* of every String and Number key shows the value stored in the document,
\* as the first rendering of the field list showed it.
C20_RowsShowStoredValues ==
    (pc = "loop" /\ ~edit) =>
        \A y \in FieldRows(key_sections) :
            KeyOnRow(key_sections, y).key_type # "Button" =>
                window[y].val = ValueText(conf, KeyOnRow(key_sections, y))

\* The delimiter characters of the five surrounding rules.
DelimiterChars == {"[", "]", "(", ")", "\"", "'", "<", ">"}

\* s is a span of rule: one opening delimiter at i, one closing delimiter at
\* j after it, and no other delimiter character and no backslash anywhere.
OneSpan(s, rule, i, j) ==
    /\ i < j
    /\ s[i] = rule.open
    /\ s[j] = rule.close
    /\ \A k \in (1..Len(s)) \ {i, j} : s[k] \notin DelimiterChars \cup {"\\"}

\* What the claim gives for such a string: the text before and after the
\* span as the character pass leaves it, the two delimiters in the rule's
\* style, and the inside in the neutral style with every reset made neutral.
StyledSpan(s, rule, i, j) ==
    CharPass(SubSeq(s, 1, i - 1), 1)
    \o rule.style \o <<rule.open>>
    \o Neutral \o ReplaceResets(CharPass(SubSeq(s, i + 1, j - 1), 1))
    \o rule.style \o <<rule.close>> \o Reset
    \o CharPass(SubSeq(s, j + 1, Len(s)), 1)

\* C13: for a string with one balanced, unescaped pair of delimiters of one
\* kind, color_str_escape returns the delimiters in their style around the
\* inside in the neutral style, the inside holding no "\x1b[1;39m", also
\* when characters of the character rules stand before, in or after it.
C13_BalancedSpanStyled ==
    result # None =>
        \A n \in 1..Len(Surrounding) : \A i, j \in 1..Len(string) :
            OneSpan(string, Surrounding[n], i, j) =>
                result[1] = StyledSpan(string, Surrounding[n], i, j)

\* Every opening delimiter of s has a backslash before it.
OpenersEscaped(s) ==
    \A i \in 1..Len(s) :
        (\E n \in 1..Len(Surrounding) : s[i] = Surrounding[n].open) =>
            (i > 1 /\ s[i - 1] = "\\")

\* s holds no character of the character rules.
NoRuleChars(s) ==
    \A i \in 1..Len(s) : \A n \in 1..Len(CharRules) : s[i] \notin CharRules[n].class

\* C14: a delimiter with a backslash before it opens and closes no span:
\* for a string whose opening delimiters all have a backslash before them,
\* color_str_escape makes no span, and its result is the string with every
\* backslash-delimiter pair replaced by the delimiter, styled.
C14_EscapedDelimiterNoSpan ==
    (result # None /\ OpenersEscaped(string) /\ NoRuleChars(string)) =>
        result[1] = EscapePass(string)

\* The fragment starts with a code "[<digits>;<digits>m".
LeadingCode(f) == CodeAt(f, 1).found

\* C15: a fragment that does not start with a code is written to the
\* window as it is, and the bold flag and the colour pair stay as they were
\* before it, also when a code stands further in.
C15_PlainFragmentVerbatim ==
    (mpc = "printw" /\ last # NoFragment /\ ~LeadingCode(last.frag)) =>
        /\ last.wrote = Some(last.frag)
        /\ surface.bold = last.bold
        /\ surface.colour = last.colour

\* The colour index of a code: its colour field without the first digit.
CodeIndex(f) == SubSeq(CodeAt(f, 1).colors[2], 2, Len(CodeAt(f, 1).colors[2]))

\* What the claim gives for the fragment last done, when it starts with a
\* code: bold is on exactly for the bold field "1", the colour pair is the
\* code's index, or as before when the code has none, and the text after
\* the code is what was written.
CodeApplied ==
    /\ mpc # "panicked"
    /\ surface.bold = (CodeAt(last.frag, 1).colors[1] = <<"1">>)
    /\ surface.colour = IF CodeIndex(last.frag) = << >> THEN last.colour
                        ELSE DecimalValue(CodeIndex(last.frag))
    /\ last.wrote = Some(SubSeq(last.frag, CodeAt(last.frag, 1).m + 1, Len(last.frag)))

RowsMarked(m) == {y \in DOMAIN window : window[y].marker = m}

\* C21: whenever the loop blocks in getch(), the row of the current key
\* carries " >> ", it is the only row that does, and every other key's row
\* carries " => ".
C21_OneCursorMarker ==
    pc = "loop" =>
        /\ DOMAIN window = FieldRows(key_sections)
        /\ RowsMarked(" >> ") = {cur_key.ypos}
        /\ RowsMarked(" => ") = FieldRows(key_sections) \ {cur_key.ypos}

\* C21 witness: the cursor went down to Name and back up to the first
\* Button; the marker is on the Button's row and Name's row shows " => ".
C21_Witness ==
    /\ pc = "loop"
    /\ key = "Up"
    /\ run.n = 1
    /\ cur = [section |-> 0, key |-> 0]
    /\ nkeys = 2
    /\ window[3].marker = " >> "
    /\ window[4].marker = " => "

\* The rows of all keys, in document order.
RowSeq(secs) == [i \in 1..Len(AllKeys(secs)) |-> AllKeys(secs)[i].ypos]

\* C22: key k of section s (both 0-based) is on row
\* 3 + 2*s + (number of keys of the sections before s) + k; the rows grow
\* strictly in document order; and the rows of the document at hand,
\* whatever values it holds by now, are the rows given at the start.
C22_LayoutRows ==
    /\ \A s \in 0..(Len(key_sections) - 1) :
          \A k \in 0..(Len(key_sections[s + 1].keys) - 1) :
              key_sections[s + 1].keys[k + 1].ypos =
                  3 + 2 * s + FieldCount(SubSeq(key_sections, 1, s)) + k
    /\ LET rows == RowSeq(key_sections)
       IN  \A i, j \in 1..Len(rows) : i < j => rows[i] < rows[j]
    /\ pc # "idle" => key_sections = Layout(BuildSections(conf))

\* C22 witness: the five keys of the linux default document are on rows
\* 3, 4, 7, 8 and 9, after a commit changed a value.
C22_Witness ==
    /\ RowSeq(key_sections) = <<3, 4, 7, 8, 9>>
    /\ confirmed # << >>
    /\ conf # loaded

\* C24: in edit mode the current key is a String or a Number key with a
\* pointer, never a Button; so no Enter in edit mode panics for want of a
\* pointer: where the loop panicked, the current key has one.
C24_EditNeverOnButton ==
    /\ (pc \in {"loop", "panicked"} /\ edit) =>
          /\ cur_key.key_type \in {"String", "Number"}
          /\ cur_key.ptr # None
    /\ pc = "panicked" => (edit /\ cur_key.ptr # None)

\* C24 witness: Enter committed the buffer of Name, a key with a pointer,
\* after the cursor had passed the Button above it.
C24_Witness ==
    /\ key = "Enter"
    /\ prev_edit
    /\ pc = "loop"
    /\ cur = [section |-> 0, key |-> 1]
    /\ cur_key.ptr # None
    /\ confirmed # << >>

\* The slots of the document c: the path of every value a key points to.
Slots(c) ==
    {"input.name"}
    \cup (IF c.display = << >> THEN {}
          ELSE {"display.screen"}
               \cup (IF c.display[1].display = << >> THEN {} ELSE {"display.display"}))

\* C25: a commit changes the slot of the current key only: every other
\* slot of the document holds what it held when Edit was entered, the
\* document has the same groups, and the field model, rows included, is the
\* one built at the start.
C25_CommitChangesOneSlot ==
    (key = "Enter" /\ prev_edit /\ pc = "loop") =>
        /\ Slots(conf) = Slots(editEntryConf)
        /\ \A sl \in Slots(conf) \ {cur_key.ptr[1].slot} :
              SlotGet(conf, sl) = SlotGet(editEntryConf, sl)
        /\ key_sections = Layout(BuildSections(loaded))

\* C25 witness: "3" was committed to Display while Name and Screen kept
\* their values.
C25_Witness ==
    /\ key = "Enter"
    /\ prev_edit
    /\ pc = "loop"
    /\ cur_key.name = "Display"
    /\ conf.display[1].display[1] = <<":", "0", "3">>
    /\ conf.input.name = << >>
    /\ conf.display[1].screen = 0

\* C27: the loop is left only by Enter pressed outside of edit mode, and
\* then save_config is called once; as long as no such key was pressed the
\* loop goes on, whatever key was pressed in edit mode, and save_config is
\* not called.
C27_LoopEndsOnlyByEnter ==
    /\ pc # "loop" => (key = "Enter" /\ ~prev_edit /\ Len(saveCalls) = 1)
    /\ pc = "loop" => saveCalls = << >>

\* C23: while the loop is in edit mode the cursor stays where edit mode was
\* entered, whatever arrow keys are pressed, and a commit by Enter writes
\* to the field that was current when edit mode was entered by Space.
C23_CursorFixedInEdit ==
    /\ (pc = "loop" /\ edit) => cur = editEntryCur
    /\ (key = "Enter" /\ prev_edit /\ pc = "loop") =>
          /\ cur = editEntryCur
          /\ confirmed[Len(confirmed)].slot = KeyAt(key_sections, editEntryCur).ptr[1].slot
          /\ conf = ApplyCommit(editEntryConf,
                                [slot |-> KeyAt(key_sections, editEntryCur).ptr[1].slot,
                                 text |-> buf])

\* C23 witness: an edit of Screen begun on the default linux document, with
\* an arrow key pressed during it, has been committed and changed Screen.
C23_Witness ==
    /\ key = "Enter" /\ prev_edit /\ pc = "loop"
    /\ arrowInEdit
    /\ KeyAt(key_sections, editEntryCur).name = "Screen"
    /\ editEntryConf = DefaultConfig("linux")
    /\ conf.display[1].screen = 1

\* C26: keys pressed outside of edit mode change the buffer and never the
\* document, and a committed value is the value the field had when edit
\* mode was entered with the keys pressed since applied to it: what the
\* buffer held before, from keys pressed outside of edit mode or in an
\* edit that was cancelled, has no part in it.
C26_CommitIgnoresEarlierKeys ==
    /\ (pc = "loop" /\ edit) => buf = replay
    /\ (key = "Enter" /\ prev_edit /\ pc = "loop") =>
          /\ confirmed[Len(confirmed)].text = replay
          /\ conf = ApplyCommit(editEntryConf,
                                [slot |-> cur_key.ptr[1].slot, text |-> replay])
    /\ (pc = "loop" /\ ~edit) => conf = ApplyCommits(loaded, confirmed)

\* C26 witness: Name, empty until then, was committed as "'" by an edit
\* that found other text in the buffer, left there by earlier keys.
C26_Witness ==
    /\ key = "Enter" /\ prev_edit /\ pc = "loop"
    /\ editEntryStale
    /\ cur_key.name = "Name"
    /\ editEntryConf.input.name = << >>
    /\ replay = <<"'">>
    /\ conf.input.name = <<"'">>

=============================================================================
